---------------------------- MODULE Spec2Model ----------------------------
(***************************************************************************)
(* Model of src/main3.py: the MPU6050 sensor pipeline (register reads,     *)
(* decoding, dead zone / rate limit / low-pass filters, complementary      *)
(* filter, speed heuristic) and the StarkHUDWidget.update tick that drives *)
(* it.                                                                     *)
(*                                                                         *)
(* Numbers.  Python floats are modelled as fixed-point numbers: the        *)
(* integer n stands for n / Scale.  Sums and differences are exact, every  *)
(* product or quotient is rounded to the grid where the code rounds to a   *)
(* double.  math.sqrt and math.atan2 are computed to the grid's            *)
(* resolution (FSqrt) and by a rational approximation (Atan2Deg).          *)
(*                                                                         *)
(* Let(v, F) is "let x = v in F(x)" with v computed once.                  *)
(***************************************************************************)
EXTENDS Integers, Sequences, FiniteSets, TLC

(***************************************************************************)
(* Bounds of the model.                                                    *)
(***************************************************************************)
\* number of calls made on the objects in one behaviour
MaxCalls == 2

(***************************************************************************)
(* Fixed-point arithmetic.                                                 *)
(***************************************************************************)
Scale == 10 ^ 6

Let(v, F(_)) == CHOOSE r \in {F(x) : x \in {v}} : TRUE

Abs(a) == IF a < 0 THEN -a ELSE a

Sgn(a) == IF a < 0 THEN -1 ELSE IF a > 0 THEN 1 ELSE 0

Min(a, b) == IF a < b THEN a ELSE b

Max(a, b) == IF a > b THEN a ELSE b

RECURSIVE GCD(_, _)
GCD(a, b) ==
    IF b = 0 THEN a ELSE CHOOSE g \in { GCD(b, r) : r \in {a % b} } : TRUE

\* a * n / d for a >= 0, rounded to nearest, without leaving 32 bits
MulDivPos(a, n, d) ==
    LET g == GCD(n, d)
        nn == n \div g
        dd == d \div g
    IN  (a \div dd) * nn + ((a % dd) * nn + dd \div 2) \div dd

\* a * n / d, rounded to nearest (half away from zero)
MulDiv(a, n, d) == Let(a, LAMBDA v : Sgn(v) * MulDivPos(Abs(v), n, d))

\* the product of two fixed-point numbers
FMulPos(a, b) ==
    LET a1 == a \div 1000
        a0 == a % 1000
        b1 == b \div 1000
        b0 == b % 1000
        t  == a1 * b0 + a0 * b1
    IN  a1 * b1 + t \div 1000 + ((t % 1000) * 1000 + a0 * b0 + Scale \div 2) \div Scale

FMul(a, b) ==
    Let(<<a, b>>, LAMBDA v : Sgn(v[1]) * Sgn(v[2]) * FMulPos(Abs(v[1]), Abs(v[2])))

\* a / d scaled by 100^k, digit by digit (0 <= a, 0 < d)
RECURSIVE DivDigits(_, _, _)
DivDigits(a, d, k) ==
    IF k = 0 THEN a \div d
    ELSE (a \div d) * (100 ^ k) + DivDigits((a % d) * 100, d, k - 1)

\* the quotient of two fixed-point numbers, 0 <= a, 0 < d
FDivPos(a, d) == DivDigits(a, d, 3)

\* math.sqrt: the largest r on the grid with r * r <= a, by bisection
\* (the next interval is bound by a quantifier so that it is computed once)
RECURSIVE SqrtSearch(_, _, _)
SqrtSearch(a, lo, hi) ==
    IF hi - lo <= 1 THEN lo
    ELSE CHOOSE r \in
             { SqrtSearch(a, p[1], p[2]) :
                 p \in { IF FMulPos((lo + hi) \div 2, (lo + hi) \div 2) <= a
                         THEN <<(lo + hi) \div 2, hi>>
                         ELSE <<lo, (lo + hi) \div 2>> } } : TRUE

FSqrt(a) ==
    Let(a, LAMBDA v : IF v <= 0 THEN 0 ELSE SqrtSearch(v, 0, Max(v, Scale) + 1))

\* atan(z) in degrees for 0 <= z <= 1:
\*   45 z + z (1 - z) (14.02 + 3.80 z),  within 0.1 degree of math.atan
AtanDeg01(z) ==
    Let(z, LAMBDA v :
        45 * v + FMul(FMul(v, Scale - v), 14020000 + MulDiv(v, 380, 100)))

\* math.atan2(y, x) * 180 / math.pi
Atan2Deg(y, x) ==
    Let(<<y, x>>, LAMBDA v :
        IF v[1] = 0 /\ v[2] = 0 THEN 0
        ELSE LET ay == Abs(v[1])
                 ax == Abs(v[2])
                 base == IF ay <= ax THEN AtanDeg01(FDivPos(ay, ax))
                         ELSE 90 * Scale - AtanDeg01(FDivPos(ax, ay))
                 ang == IF v[2] >= 0 THEN base ELSE 180 * Scale - base
             IN  IF v[1] < 0 THEN -ang ELSE ang)

(***************************************************************************)
(* The I2C bus as the program sees it: the bytes the device holds at the   *)
(* register addresses and the addresses whose read_byte_data raises.       *)
(***************************************************************************)
ACCEL_XOUT == 59   \* 0x3b

ACCEL_YOUT == 61   \* 0x3d

ACCEL_ZOUT == 63   \* 0x3f

TEMP_OUT == 65     \* 0x41

GYRO_XOUT == 67    \* 0x43

GYRO_YOUT == 69    \* 0x45

GYRO_ZOUT == 71    \* 0x47

ByteAddrs == ACCEL_XOUT .. (GYRO_ZOUT + 1)

Byte == 0 .. (2 ^ 8 - 1)

Axes == {"x", "y", "z"}

Vec(a, b, c) == [x |-> a, y |-> b, z |-> c]

ZeroVec == Vec(0, 0, 0)

ZeroAngles == [pitch |-> 0, roll |-> 0, yaw |-> 0]

(***************************************************************************)
(* class MPU6050                                                           *)
(***************************************************************************)
\* __init__: the fields, and sensor_available from the outcome of opening
\* the bus and of the wake-up write
MPU6050Init(outcome) ==
    [ last_accel       |-> ZeroVec,
      last_gyro        |-> ZeroVec,
      filtered_pitch   |-> 0,
      filtered_roll    |-> 0,
      filtered_yaw     |-> 0,
      prev_accel       |-> ZeroVec,
      prev_gyro        |-> ZeroVec,
      sensor_available |-> (outcome = "ok") ]

\* what a method call leaves behind: the object, the returned value, the
\* number of bus transactions, whether it raised to its caller, the methods
\* whose except branch ran, and how often each filter stage was applied
Res(m, ret, io, raised, handled, nAccel, nGyro) ==
    [ m |-> m, ret |-> ret, io |-> io, raised |-> raised, handled |-> handled,
      nAccel |-> nAccel, nGyro |-> nGyro ]

\* DecodeWord with the negative branch one too high
DecodeWord_OffByOne(high, low) ==
    LET value == high * 256 + low
    IN  IF value >= 32768 THEN -(65535 - value) ELSE value

\* read_word, lines 52-56: the 16-bit two's-complement value of two bytes
DecodeWord(high, low) ==
    LET value == high * 256 + low
    IN  IF value >= 32768 THEN -((65535 - value) + 1) ELSE value

\* read_word marking the sensor unavailable after a failed read
ReadWord_GivesUp(m, bus, register) ==
    IF ~m.sensor_available THEN Res(m, 0, 0, FALSE, {}, 0, 0)
    ELSE IF register \in bus.fail \/ (register + 1) \in bus.fail
         THEN Res([m EXCEPT !.sensor_available = FALSE], 0,
                  IF register \in bus.fail THEN 1 ELSE 2,
                  FALSE, {"read_word"}, 0, 0)
    ELSE Res(m, DecodeWord(bus.mem[register], bus.mem[register + 1]),
             2, FALSE, {}, 0, 0)

\* read_word without its try/except: the bus error reaches the caller
ReadWord_Raises(m, bus, register) ==
    IF ~m.sensor_available THEN Res(m, 0, 0, FALSE, {}, 0, 0)
    ELSE IF register \in bus.fail
         THEN Res(m, 0, 1, TRUE, {}, 0, 0)
    ELSE IF (register + 1) \in bus.fail
         THEN Res(m, 0, 2, TRUE, {}, 0, 0)
    ELSE Res(m, DecodeWord(bus.mem[register], bus.mem[register + 1]),
             2, FALSE, {}, 0, 0)

\* read_word
ReadWord(m, bus, register) ==
    IF ~m.sensor_available THEN Res(m, 0, 0, FALSE, {}, 0, 0)
    ELSE IF register \in bus.fail
         THEN Res(m, 0, 1, FALSE, {"read_word"}, 0, 0)
    ELSE IF (register + 1) \in bus.fail
         THEN Res(m, 0, 2, FALSE, {"read_word"}, 0, 0)
    ELSE Res(m, DecodeWord(bus.mem[register], bus.mem[register + 1]),
             2, FALSE, {}, 0, 0)

\* consecutive read_word calls inside one try block: the first one that
\* raises ends the block
RECURSIVE ReadWords(_, _, _)
ReadWords(m, bus, registers) ==
    IF registers = <<>> THEN Res(m, <<>>, 0, FALSE, {}, 0, 0)
    ELSE Let(ReadWord(m, bus, Head(registers)), LAMBDA r :
         IF r.raised
         THEN Res(r.m, <<>>, r.io, TRUE, r.handled, 0, 0)
         ELSE Let(ReadWords(r.m, bus, Tail(registers)), LAMBDA rest :
              Res(rest.m, <<r.ret>> \o rest.ret, r.io + rest.io,
                  rest.raised, r.handled \cup rest.handled, 0, 0)))

\* raw word / sensitivity
AccelSensitivity == 16384

GyroSensitivity == 131

ToUnits(word, sensitivity) == MulDiv(word, Scale, sensitivity)

\* the accelerometer dead zone taken on the value, as the gyroscope's is
AccelDeadZone_Absolute(new, prev) ==
    IF Abs(new) < MulDiv(Scale, 5, 100) THEN 0 ELSE new

\* read_accel_data, lines 72-75: freeze a reading close to the previous one
AccelDeadZone(new, prev) ==
    IF Abs(new - prev) < MulDiv(Scale, 5, 100) THEN prev ELSE new

\* the smoother without the (1 - alpha) weight on the stored value
LowPass_NoDecay(new, last) == MulDiv(new, 5, 100) + last

\* lines 81-84 and 120-123: alpha * new + (1 - alpha) * last, alpha = 0.05
LowPass(new, last) == MulDiv(new, 5, 100) + MulDiv(last, 95, 100)

\* read_accel_data, lines 67-86, on the words read
AccelFilter(m, words) ==
    Let([a \in Axes |->
           AccelDeadZone(
               ToUnits(words[IF a = "x" THEN 1 ELSE IF a = "y" THEN 2 ELSE 3],
                       AccelSensitivity),
               m.prev_accel[a])],
        LAMBDA accel :
        [m EXCEPT !.prev_accel = accel,
                  !.last_accel =
                      [a \in Axes |-> LowPass(accel[a], m.last_accel[a])]])

\* read_accel_data
ReadAccelData(m, bus) ==
    IF ~m.sensor_available THEN Res(m, ZeroVec, 0, FALSE, {}, 0, 0)
    ELSE
    Let(ReadWords(m, bus, <<ACCEL_XOUT, ACCEL_YOUT, ACCEL_ZOUT>>), LAMBDA w :
        IF w.raised
        THEN Res(w.m, ZeroVec, w.io, FALSE,
                 w.handled \cup {"read_accel_data"}, 0, 0)
        ELSE Let(AccelFilter(w.m, w.ret), LAMBDA m2 :
             Res(m2, m2.last_accel, w.io, FALSE, w.handled, 1, 0)))

\* the gyroscope dead zone at its earlier width, 0.5
GyroDeadZone_Narrow(new) ==
    IF Abs(new) < MulDiv(Scale, 5, 10) THEN 0 ELSE new

\* read_gyro_data, lines 102-105: a reading near rest is zero
GyroDeadZone(new) ==
    IF Abs(new) < MulDiv(Scale, 15, 10) THEN 0 ELSE new

\* the rate limiter stepping upward whatever the direction of the change
GyroRateLimit_Upward(new, prev) ==
    IF Abs(new - prev) > 2 * Scale THEN prev + 2 * Scale ELSE new

\* no rate limiter: the dead-zoned reading is stored as it is
GyroRateLimit_Off(new, prev) == new

\* the rate limiter holding the previous value on a large change
GyroRateLimit_Sticky(new, prev) ==
    IF Abs(new - prev) > 2 * Scale THEN prev ELSE new

\* the rate limiter stepping from the reading instead of the previous value
GyroRateLimit_FromNew(new, prev) ==
    IF Abs(new - prev) > 2 * Scale
    THEN new + 2 * Scale * (IF new > prev THEN 1 ELSE -1)
    ELSE new

\* read_gyro_data, lines 108-114: at most max_change away from the
\* previous value
GyroRateLimit(new, prev) ==
    IF Abs(new - prev) > 2 * Scale
    THEN prev + 2 * Scale * (IF new > prev THEN 1 ELSE -1)
    ELSE new

\* read_gyro_data, lines 97-125, on the words read
GyroFilter(m, words) ==
    Let([a \in Axes |->
           GyroRateLimit(
               GyroDeadZone(
                   ToUnits(words[IF a = "x" THEN 1 ELSE IF a = "y" THEN 2 ELSE 3],
                           GyroSensitivity)),
               m.prev_gyro[a])],
        LAMBDA gyro :
        [m EXCEPT !.prev_gyro = gyro,
                  !.last_gyro =
                      [a \in Axes |-> LowPass(gyro[a], m.last_gyro[a])]])

\* read_gyro_data
ReadGyroData(m, bus) ==
    IF ~m.sensor_available THEN Res(m, ZeroVec, 0, FALSE, {}, 0, 0)
    ELSE
    Let(ReadWords(m, bus, <<GYRO_XOUT, GYRO_YOUT, GYRO_ZOUT>>), LAMBDA w :
        IF w.raised
        THEN Res(w.m, ZeroVec, w.io, FALSE,
                 w.handled \cup {"read_gyro_data"}, 0, 0)
        ELSE Let(GyroFilter(w.m, w.ret), LAMBDA m2 :
             Res(m2, m2.last_gyro, w.io, FALSE, w.handled, 0, 1)))

\* read_temp_data: raw / 340.0 + 36.53
ReadTempData(m, bus) ==
    IF ~m.sensor_available THEN Res(m, 0, 0, FALSE, {}, 0, 0)
    ELSE
    Let(ReadWord(m, bus, TEMP_OUT), LAMBDA w :
        IF w.raised
        THEN Res(w.m, 0, w.io, FALSE, w.handled \cup {"read_temp_data"}, 0, 0)
        ELSE Res(w.m, MulDiv(w.ret, Scale, 340) + MulDiv(Scale, 3653, 100),
                 w.io, FALSE, w.handled, 0, 0))

\* get_rotation_angles, lines 150-174: the complementary filter on the
\* filtered accelerometer and gyroscope vectors,
\* dt = 1/30.0, filter_coef = 0.995, gyro_scale = 0.3
ComplementaryFilter(m, accel, gyro) ==
    Let(<<Atan2Deg(accel.y, accel.z),
          Atan2Deg(-accel.x,
                   FSqrt(FMul(accel.y, accel.y) + FMul(accel.z, accel.z)))>>,
        LAMBDA t :
        \* t[1] is accel_roll, t[2] is accel_pitch
        [m EXCEPT
           !.filtered_roll =
               MulDiv(m.filtered_roll + MulDiv(MulDiv(gyro.x, 1, 30), 3, 10),
                      995, 1000)
               + MulDiv(t[1], 5, 1000),
           !.filtered_pitch =
               MulDiv(m.filtered_pitch + MulDiv(MulDiv(gyro.y, 1, 30), 3, 10),
                      995, 1000)
               + MulDiv(t[2], 5, 1000),
           !.filtered_yaw =
               m.filtered_yaw + MulDiv(MulDiv(gyro.z, 1, 30), 1, 10)])

\* get_rotation_angles
GetRotationAngles(m, bus) ==
    IF ~m.sensor_available THEN Res(m, ZeroAngles, 0, FALSE, {}, 0, 0)
    ELSE
    Let(ReadAccelData(m, bus), LAMBDA a :
    Let(ReadGyroData(a.m, bus), LAMBDA g :
    Let(ComplementaryFilter(g.m, a.ret, g.ret), LAMBDA m2 :
        Res(m2,
            [pitch |-> m2.filtered_pitch, roll |-> m2.filtered_roll,
             yaw |-> m2.filtered_yaw],
            a.io + g.io, FALSE, a.handled \cup g.handled,
            a.nAccel + g.nAccel, a.nGyro + g.nGyro))))

\* the speed estimate with its earlier constants: dead zone 0.05, scale 25
SpeedOf_Old(accel) ==
    Let(FSqrt(FMul(accel.x, accel.x) + FMul(accel.y, accel.y)
              + FMul(accel.z - Scale, accel.z - Scale)),
        LAMBDA magnitude :
        Max(0, Min(200 * Scale,
                   (IF magnitude < MulDiv(Scale, 5, 100) THEN 0 ELSE magnitude)
                   * 25)))

\* estimate_speed, lines 187-198, on the filtered accelerometer vector
SpeedOf(accel) ==
    Let(FSqrt(FMul(accel.x, accel.x) + FMul(accel.y, accel.y)
              + FMul(accel.z - Scale, accel.z - Scale)),
        LAMBDA magnitude :
        Max(0, Min(200 * Scale,
                   (IF magnitude < MulDiv(Scale, 1, 10) THEN 0 ELSE magnitude)
                   * 10)))

\* estimate_speed without its availability check
EstimateSpeed_Unguarded(m, bus) ==
    Let(ReadAccelData(m, bus), LAMBDA a :
        Res(a.m, SpeedOf(a.ret), a.io, FALSE, a.handled, a.nAccel, a.nGyro))

\* estimate_speed refreshing the gyroscope as well as the accelerometer
EstimateSpeed_ReadsGyro(m, bus) ==
    IF ~m.sensor_available THEN Res(m, 0, 0, FALSE, {}, 0, 0)
    ELSE
    Let(ReadAccelData(m, bus), LAMBDA a :
    Let(ReadGyroData(a.m, bus), LAMBDA g :
        Res(g.m, SpeedOf(a.ret), a.io + g.io, FALSE,
            a.handled \cup g.handled, a.nAccel, g.nGyro)))

\* estimate_speed
EstimateSpeed(m, bus) ==
    IF ~m.sensor_available THEN Res(m, 0, 0, FALSE, {}, 0, 0)
    ELSE
    Let(ReadAccelData(m, bus), LAMBDA a :
        Res(a.m, SpeedOf(a.ret), a.io, FALSE, a.handled, a.nAccel, a.nGyro))

(***************************************************************************)
(* class StarkHUDWidget                                                    *)
(***************************************************************************)
NumDataPoints == 30

\* __init__: the fields update works on
HUDInit ==
    [ heading     |-> 0,
      speed       |-> 0,
      pitch       |-> 0,
      roll        |-> 0,
      yaw         |-> 0,
      scan_angle  |-> 0,
      data_points |-> [i \in 1 .. NumDataPoints |-> Scale \div 2] ]

\* update(dt), dt = dtn / dtd seconds; draw_elements only renders
Update(h, m, bus, dtn, dtd) ==
    Let(GetRotationAngles(m, bus), LAMBDA r1 :
    Let(h.yaw + MulDiv(r1.ret.yaw, dtn, dtd), LAMBDA yaw :
    Let(EstimateSpeed(r1.m, bus), LAMBDA r2 :
    Let(ReadAccelData(r2.m, bus), LAMBDA r3 :
    Let(ReadGyroData(r3.m, bus), LAMBDA r4 :
        [ h |-> [ heading     |-> yaw % (360 * Scale),
                  speed       |-> r2.ret,
                  pitch       |-> r1.ret.pitch,
                  roll        |-> r1.ret.roll,
                  yaw         |-> yaw,
                  scan_angle  |-> (h.scan_angle + 5) % 360,
                  data_points |->
                      Tail(Append(h.data_points,
                                  MulDiv(Abs(r3.ret.x) + Abs(r3.ret.y)
                                         + Abs(r3.ret.z), 1, 6))) ],
          r |-> Res(r4.m, 0, r1.io + r2.io + r3.io + r4.io, FALSE,
                    r1.handled \cup r2.handled \cup r3.handled \cup r4.handled,
                    r1.nAccel + r2.nAccel + r3.nAccel + r4.nAccel,
                    r1.nGyro + r2.nGyro + r3.nGyro + r4.nGyro) ])))))

(***************************************************************************)
(* The state: the two objects, and a record of the last call made on them  *)
(* (its name, its inputs, the object before it and what it left behind).   *)
(***************************************************************************)
VARIABLES
    init,    \* how MPU6050.__init__ went: "ok", "open_fails", "write_fails"
    mpu,     \* the MPU6050 object
    hud,     \* the StarkHUDWidget object
    op,      \* the last call: "init", "read_word", ..., "update"
    reg,     \* the register argument of the last read_word
    bus,     \* the bus contents during the last call
    pre,     \* the MPU6050 object before the last call
    out,     \* what the last call left behind, see Res
    calls    \* the number of calls made

vars == <<init, mpu, hud, op, reg, bus, pre, out, calls>>

WordRegs ==
    {ACCEL_XOUT, ACCEL_YOUT, ACCEL_ZOUT, TEMP_OUT, GYRO_XOUT, GYRO_YOUT,
     GYRO_ZOUT}

\* the registers a caller reads with read_word directly
DirectRegs == {ACCEL_XOUT, TEMP_OUT, GYRO_ZOUT}

\* the 14 bytes at 0x3b .. 0x48 and the failing addresses
Bus(bytes, fail) ==
    [ mem |-> [a \in ByteAddrs |-> bytes[a - ACCEL_XOUT + 1]], fail |-> fail ]

QuietBus == Bus(<<0, 0, 0, 0, 0, 0, 0, 0, 0, 0, 0, 0, 0, 0>>, {})

\* accelerometer words (x, y, z), as bytes
AccRest  == <<0, 0, 0, 0, 64, 0>>          \* 0, 0, 1 g

AccTilt  == <<32, 0, 0, 0, 64, 0>>         \* 0.5, 0, 1 g

AccNoise == <<33, 72, 0, 164, 64, 0>>      \* 0.52, 0.01, 1 g

AccEdge  == <<128, 0, 255, 255, 127, 255>> \* -2 g, -1 LSB, +2 g - 1 LSB

\* gyroscope words (x, y, z), as bytes
GyrSlow  == <<0, 5, 0, 131, 0, 210>>       \* 0.04, 1.0, 1.60 deg/s

GyrEdge  == <<127, 255, 128, 0, 255, 190>> \* 250.1, -250.2, -0.50 deg/s

GyrStep  == <<1, 44, 255, 59, 1, 6>>       \* 2.29, -1.504, 2.0 deg/s

GyrZero  == <<0, 0, 0, 0, 0, 0>>

\* the bus contents a call can meet
Scenarios ==
    { Bus(AccRest  \o <<0, 0>>     \o GyrZero, {}),
      Bus(AccTilt  \o <<13, 72>>   \o GyrSlow, {}),
      Bus(AccNoise \o <<243, 160>> \o GyrEdge, {}),
      Bus(AccEdge  \o <<0, 0>>     \o GyrStep, {}),
      Bus(AccTilt  \o <<13, 72>>   \o GyrSlow, {ACCEL_XOUT}),
      Bus(AccRest  \o <<0, 0>>     \o GyrEdge, {GYRO_ZOUT + 1}),
      Bus(AccEdge  \o <<243, 160>> \o GyrEdge, ByteAddrs) }

\* the elapsed time the clock hands to update: 1/30 s, or 1/15 s after a
\* dropped frame
Intervals == {<<1, 30>>, <<1, 15>>}

Out(r) ==
    [ ret |-> r.ret, io |-> r.io, raised |-> r.raised, handled |-> r.handled,
      nAccel |-> r.nAccel, nGyro |-> r.nGyro ]

Init ==
    /\ init \in {"ok", "open_fails", "write_fails"}
    /\ mpu = MPU6050Init(init)
    /\ hud = HUDInit
    /\ op = "init"
    /\ reg = 0
    /\ bus = QuietBus
    /\ pre = mpu
    /\ out = Out(Res(mpu, 0, 0, FALSE, {}, 0, 0))
    /\ calls = 0

\* a call name(register) on the MPU6050 object with the bus holding b
Call(name, register, b, r) ==
    /\ calls' = calls + 1
    /\ op' = name
    /\ reg' = register
    /\ bus' = b
    /\ pre' = mpu
    /\ mpu' = r.m
    /\ out' = Out(r)
    /\ UNCHANGED init

ReadWordOp ==
    /\ calls < MaxCalls
    /\ \E b \in Scenarios, register \in DirectRegs :
           \E r \in {ReadWord(mpu, b, register)} :
               /\ Call("read_word", register, b, r)
               /\ UNCHANGED hud

ReadAccelDataOp ==
    /\ calls < MaxCalls
    /\ \E b \in Scenarios :
           \E r \in {ReadAccelData(mpu, b)} :
               /\ Call("read_accel_data", 0, b, r)
               /\ UNCHANGED hud

ReadGyroDataOp ==
    /\ calls < MaxCalls
    /\ \E b \in Scenarios :
           \E r \in {ReadGyroData(mpu, b)} :
               /\ Call("read_gyro_data", 0, b, r)
               /\ UNCHANGED hud

ReadTempDataOp ==
    /\ calls < MaxCalls
    /\ \E b \in Scenarios :
           \E r \in {ReadTempData(mpu, b)} :
               /\ Call("read_temp_data", 0, b, r)
               /\ UNCHANGED hud

GetRotationAnglesOp ==
    /\ calls < MaxCalls
    /\ \E b \in Scenarios :
           \E r \in {GetRotationAngles(mpu, b)} :
               /\ Call("get_rotation_angles", 0, b, r)
               /\ UNCHANGED hud

EstimateSpeedOp ==
    /\ calls < MaxCalls
    /\ \E b \in Scenarios :
           \E r \in {EstimateSpeed(mpu, b)} :
               /\ Call("estimate_speed", 0, b, r)
               /\ UNCHANGED hud

\* one tick of Clock.schedule_interval(self.update, 1/30)
UpdateOp ==
    /\ calls < MaxCalls
    /\ \E b \in Scenarios, dt \in Intervals :
           \E u \in {Update(hud, mpu, b, dt[1], dt[2])} :
               /\ Call("update", 0, b, u.r)
               /\ hud' = u.h

Next ==
    \/ ReadWordOp
    \/ ReadAccelDataOp
    \/ ReadGyroDataOp
    \/ ReadTempDataOp
    \/ GetRotationAnglesOp
    \/ EstimateSpeedOp
    \/ UpdateOp

Spec == Init /\ [][Next]_vars


(***************************************************************************)
(* The decoder alone: read_word on every pair of bytes.                    *)
(***************************************************************************)
InitWord ==
    /\ init = "ok"
    /\ mpu = MPU6050Init(init)
    /\ hud = HUDInit
    /\ op = "init"
    /\ reg = 0
    /\ bus \in { Bus(<<h, l>> \o <<0, 0, 0, 0, 0, 0, 0, 0, 0, 0, 0, 0>>, {}) :
                   h \in Byte, l \in Byte }
    /\ pre = mpu
    /\ out = Out(Res(mpu, 0, 0, FALSE, {}, 0, 0))
    /\ calls = 0

DecodeOp ==
    /\ calls = 0
    /\ \E r \in {ReadWord(mpu, bus, ACCEL_XOUT)} :
           /\ Call("read_word", ACCEL_XOUT, bus, r)
           /\ UNCHANGED hud

SpecWord == InitWord /\ [][DecodeOp]_vars

(***************************************************************************)
(* The filters on a sensor at rest on one reading: both filter stages of   *)
(* each sensor hold the converted reading, the sensor keeps reporting it,  *)
(* and the read methods are applied.                                       *)
(***************************************************************************)
MaxGrid == 40

\* a signed 16-bit value as a big-endian two's-complement word
EncodeWord(w) == <<(w % 65536) \div 256, (w % 65536) % 256>>

\* readings spread over the 16-bit range
GridWords == {k * 797 : k \in (-MaxGrid) .. MaxGrid}

\* the words (x, y, z) both sensors report: all three on the grid, or the
\* device lying flat (z = 1 g) with a small offset on another axis
SettledWords ==
    {<<w, w, w>> : w \in GridWords}
    \cup {<<0, 0, 16384>>, <<0, 1600, 16384>>, <<1700, 0, 16384>>,
          <<0, 0, -16384>>}

HeldBus(words) ==
    Bus(EncodeWord(words[1]) \o EncodeWord(words[2]) \o EncodeWord(words[3])
        \o <<0, 0>>
        \o EncodeWord(words[1]) \o EncodeWord(words[2]) \o EncodeWord(words[3]),
        {})

\* the object whose filter state equals the converted reading
Settled(words) ==
    LET accel == [x |-> ToUnits(words[1], AccelSensitivity),
                  y |-> ToUnits(words[2], AccelSensitivity),
                  z |-> ToUnits(words[3], AccelSensitivity)]
        gyro == [x |-> GyroDeadZone(ToUnits(words[1], GyroSensitivity)),
                 y |-> GyroDeadZone(ToUnits(words[2], GyroSensitivity)),
                 z |-> GyroDeadZone(ToUnits(words[3], GyroSensitivity))]
    IN  [MPU6050Init("ok") EXCEPT !.prev_accel = accel, !.last_accel = accel,
                                  !.prev_gyro = gyro, !.last_gyro = gyro]

InitSettled ==
    /\ init = "ok"
    /\ \E words \in SettledWords :
           /\ mpu = Settled(words)
           /\ bus = HeldBus(words)
    /\ hud = HUDInit
    /\ op = "init"
    /\ reg = 0
    /\ pre = mpu
    /\ out = Out(Res(mpu, 0, 0, FALSE, {}, 0, 0))
    /\ calls = 0

SettledAccelOp ==
    /\ calls < MaxCalls
    /\ \E r \in {ReadAccelData(mpu, bus)} :
           /\ Call("read_accel_data", 0, bus, r)
           /\ UNCHANGED hud

SettledGyroOp ==
    /\ calls < MaxCalls
    /\ \E r \in {ReadGyroData(mpu, bus)} :
           /\ Call("read_gyro_data", 0, bus, r)
           /\ UNCHANGED hud

SettledSpeedOp ==
    /\ calls < MaxCalls
    /\ \E r \in {EstimateSpeed(mpu, bus)} :
           /\ Call("estimate_speed", 0, bus, r)
           /\ UNCHANGED hud

NextSettled == SettledAccelOp \/ SettledGyroOp \/ SettledSpeedOp

SpecSettled == InitSettled /\ [][NextSettled]_vars

(***************************************************************************)
(* The periodic read on a sensor that holds one reading, moves once, and   *)
(* holds the second reading: get_rotation_angles, the first call of every  *)
(* update tick, which reads each sensor once, runs MaxHold times on either *)
(* reading.  The 30 Hz clock keeps calling, hence the fairness condition.  *)
(***************************************************************************)
MaxHold == 256

HeldScenarios ==
    Scenarios \cup {Bus(AccEdge \o <<0, 0>> \o GyrEdge, {})}

InitHold ==
    /\ init = "ok"
    /\ mpu = MPU6050Init(init)
    /\ hud = HUDInit
    /\ op = "init"
    /\ reg = 0
    /\ bus \in HeldScenarios
    /\ pre = mpu
    /\ out = Out(Res(mpu, 0, 0, FALSE, {}, 0, 0))
    /\ calls = 0

HoldOp ==
    /\ calls # MaxHold
    /\ calls < 2 * MaxHold + 1
    /\ \E r \in {GetRotationAngles(mpu, bus)} :
           /\ Call("get_rotation_angles", 0, bus, r)
           /\ UNCHANGED hud

\* the device is moved: the registers hold other words from now on
SensorMovesOp ==
    /\ calls = MaxHold
    /\ \E b \in HeldScenarios \ {bus} :
           /\ bus' = b
           /\ op' = "sensor_moves"
           /\ pre' = mpu
           /\ calls' = calls + 1
           /\ UNCHANGED <<init, mpu, hud, reg, out>>

NextHold == HoldOp \/ SensorMovesOp

\* one firing of Clock.schedule_interval: every step of NextHold is one, it
\* counts in calls, and one is possible as long as calls are left
ClockFires ==
    /\ calls < 2 * MaxHold + 1
    /\ calls' = calls + 1

SpecHold == InitHold /\ [][NextHold]_vars /\ WF_calls(ClockFires)

(***************************************************************************)
(* The claims.                                                             *)
(***************************************************************************)
\* a bus error hits the word at register r
Failed(b, r) == r \in b.fail \/ (r + 1) \in b.fail

AccelReg(a) ==
    IF a = "x" THEN ACCEL_XOUT ELSE IF a = "y" THEN ACCEL_YOUT ELSE ACCEL_ZOUT

GyroReg(a) ==
    IF a = "x" THEN GYRO_XOUT ELSE IF a = "y" THEN GYRO_YOUT ELSE GYRO_ZOUT

\* the converted reading of an axis during the last call: the word read
\* (0 when the read failed) over the sensitivity
AccelNew(a) ==
    IF Failed(bus, AccelReg(a)) THEN 0
    ELSE ToUnits(DecodeWord(bus.mem[AccelReg(a)], bus.mem[AccelReg(a) + 1]),
                 AccelSensitivity)

GyroNew(a) ==
    IF Failed(bus, GyroReg(a)) THEN 0
    ELSE ToUnits(DecodeWord(bus.mem[GyroReg(a)], bus.mem[GyroReg(a) + 1]),
                 GyroSensitivity)

\* the calls that apply the accelerometer, the gyroscope stage exactly once
OneAccelRead == {"read_accel_data", "get_rotation_angles", "estimate_speed"}

OneGyroRead == {"read_gyro_data", "get_rotation_angles"}

\* C1 (as claimed): when a register read fails on an available sensor,
\* read_accel_data / read_gyro_data returns the zero vector and leaves
\* prev_* and last_* as they were.
C1_FailedReadLeavesFilterState ==
    /\ (op = "read_accel_data" /\ pre.sensor_available
          /\ \E a \in Axes : Failed(bus, AccelReg(a)))
       => (out.ret = ZeroVec /\ mpu.prev_accel = pre.prev_accel
             /\ mpu.last_accel = pre.last_accel)
    /\ (op = "read_gyro_data" /\ pre.sensor_available
          /\ \E a \in Axes : Failed(bus, GyroReg(a)))
       => (out.ret = ZeroVec /\ mpu.prev_gyro = pre.prev_gyro
             /\ mpu.last_gyro = pre.last_gyro)

\* C2: on an unavailable sensor every pipeline call returns an all-zero
\* result, makes no bus transaction, raises nothing and leaves every field
\* of the object unchanged.
C2_UnavailableIsInert ==
    (~pre.sensor_available /\ op # "init" /\ op # "update")
    => /\ out.io = 0
       /\ ~out.raised
       /\ mpu = pre
       /\ op \in {"read_word", "read_temp_data", "estimate_speed"}
            => out.ret = 0
       /\ op \in {"read_accel_data", "read_gyro_data"} => out.ret = ZeroVec
       /\ op = "get_rotation_angles" => out.ret = ZeroAngles

C2_Witness ==
    /\ ~pre.sensor_available
    /\ calls = 2
    /\ op = "estimate_speed"
    /\ bus.fail = {}

\* C3 (as claimed): one update tick applies the accelerometer filter stage
\* and the gyroscope filter stage exactly once each.
C3_OnePassPerTick ==
    (op = "update" /\ pre.sensor_available)
    => (out.nAccel = 1 /\ out.nGyro = 1)

\* C4 (as claimed): a gyro reading with |new| < 1.5 is stored in prev_gyro
\* as exactly 0, whatever the previous value.
C4_GyroDeadZoneGivesZero ==
    (op \in OneGyroRead /\ pre.sensor_available)
    => \A a \in Axes :
         Abs(GyroNew(a)) < (15 * Scale) \div 10 => mpu.prev_gyro[a] = 0

\* C4 (amended): a gyro reading with |new| < 1.5 enters the rate limiter
\* as 0: prev_gyro becomes 0 when the previous value is within 2.0 of 0,
\* and otherwise the previous value moved 2.0 toward 0.
C4_GyroDeadZoneThenRateLimit ==
    (op \in OneGyroRead /\ pre.sensor_available)
    => \A a \in Axes :
         Abs(GyroNew(a)) < (15 * Scale) \div 10
         => mpu.prev_gyro[a] =
              (IF Abs(pre.prev_gyro[a]) <= 2 * Scale THEN 0
               ELSE pre.prev_gyro[a] - 2 * Scale * Sgn(pre.prev_gyro[a]))

C4_Witness ==
    /\ op = "read_gyro_data"
    /\ pre.sensor_available
    /\ \E a \in Axes :
         /\ GyroNew(a) # 0
         /\ Abs(GyroNew(a)) < (15 * Scale) \div 10
         /\ Abs(pre.prev_gyro[a]) > 2 * Scale
         /\ mpu.prev_gyro[a] # 0

\* C5 (as claimed): when the converted reading and the previous value differ
\* by more than 2.0, prev_gyro becomes prev + 2.0 * sign(new - prev).
C5_GyroRateLimitOnReading ==
    (op \in OneGyroRead /\ pre.sensor_available)
    => \A a \in Axes :
         Abs(GyroNew(a) - pre.prev_gyro[a]) > 2 * Scale
         => mpu.prev_gyro[a] =
              pre.prev_gyro[a] + 2 * Scale * Sgn(GyroNew(a) - pre.prev_gyro[a])

\* the reading after the dead zone
GyroAfterDeadZone(a) ==
    IF Abs(GyroNew(a)) < (15 * Scale) \div 10 THEN 0 ELSE GyroNew(a)

\* C5 (amended): when the reading after the dead zone (0 for |new| < 1.5)
\* and the previous value differ by more than 2.0, prev_gyro becomes
\* prev + 2.0 * sign(that difference).
C5_GyroRateLimitAfterDeadZone ==
    (op \in OneGyroRead /\ pre.sensor_available)
    => \A a \in Axes :
         Abs(GyroAfterDeadZone(a) - pre.prev_gyro[a]) > 2 * Scale
         => mpu.prev_gyro[a] =
              pre.prev_gyro[a]
              + 2 * Scale * Sgn(GyroAfterDeadZone(a) - pre.prev_gyro[a])

C5_Witness ==
    /\ op = "read_gyro_data"
    /\ pre.sensor_available
    /\ \E a \in Axes :
         /\ pre.prev_gyro[a] # 0
         /\ GyroAfterDeadZone(a) - pre.prev_gyro[a] < -2 * Scale
         /\ mpu.prev_gyro[a] = pre.prev_gyro[a] - 2 * Scale

\* C6 (as claimed): after an update tick the heading equals the estimator's
\* accumulated yaw modulo 360 and lies in [0, 360).
C6_HeadingIsYawMod360 ==
    op = "update"
    => /\ hud.heading = mpu.filtered_yaw % (360 * Scale)
       /\ 0 <= hud.heading
       /\ hud.heading < 360 * Scale

\* C7: sensor_available is what construction made it (true iff opening the
\* bus and the wake-up write both succeeded) and no call changes it.
C7_AvailabilitySetOnce ==
    /\ mpu.sensor_available = (init = "ok")
    /\ pre.sensor_available = mpu.sensor_available

C7_Witness ==
    /\ mpu.sensor_available
    /\ calls = 2
    /\ op = "read_accel_data"
    /\ "read_word" \in out.handled
    /\ pre.prev_accel # ZeroVec

\* C8: an accelerometer reading within 0.05 of the previous value leaves
\* prev_accel of that axis unchanged, and the previous value is what the
\* smoother is fed.
C8_AccelDeadZoneFreezes ==
    (op \in OneAccelRead /\ pre.sensor_available)
    => \A a \in Axes :
         Abs(AccelNew(a) - pre.prev_accel[a]) < (5 * Scale) \div 100
         => /\ mpu.prev_accel[a] = pre.prev_accel[a]
            /\ mpu.last_accel[a] =
                 MulDiv(pre.prev_accel[a], 5, 100)
                 + MulDiv(pre.last_accel[a], 95, 100)

C8_Witness ==
    /\ op = "read_accel_data"
    /\ pre.sensor_available
    /\ \E a \in Axes :
         /\ pre.prev_accel[a] # 0
         /\ AccelNew(a) # pre.prev_accel[a]
         /\ Abs(AccelNew(a) - pre.prev_accel[a]) < (5 * Scale) \div 100

\* C9: read_word on the bytes (high, low), v = high * 256 + low, returns v
\* when v < 0x8000 and v - 65536 otherwise, and encoding the result gives
\* (high, low) back.
C9_DecodeRoundTrip ==
    (op = "read_word" /\ pre.sensor_available /\ ~Failed(bus, reg))
    => LET high == bus.mem[reg]
           low == bus.mem[reg + 1]
           v == high * 256 + low
       IN  /\ out.ret = (IF v < 32768 THEN v ELSE v - 65536)
           /\ EncodeWord(out.ret) = <<high, low>>

C9_Witness ==
    /\ op = "read_word"
    /\ bus.mem[reg] = 255
    /\ bus.mem[reg + 1] = 190
    /\ out.ret = -66

\* C10: a bus error on the high or the low byte makes read_word return 0,
\* never a partial value, and raise nothing; the enclosing call runs its
\* try block to the end (no except branch other than read_word's own runs).
C10_ReadErrorGivesZero ==
    pre.sensor_available
    => /\ (op = "read_word" /\ Failed(bus, reg))
          => (out.ret = 0 /\ ~out.raised /\ out.handled = {"read_word"})
       /\ (op \in OneAccelRead /\ \E a \in Axes : Failed(bus, AccelReg(a)))
          => (~out.raised /\ out.handled = {"read_word"} /\ out.nAccel = 1)
       /\ (op \in OneGyroRead /\ \E a \in Axes : Failed(bus, GyroReg(a)))
          => (~out.raised /\ out.handled = {"read_word"} /\ out.nGyro = 1)

C10_Witness ==
    /\ pre.sensor_available
    /\ op = "read_word"
    /\ reg \notin bus.fail
    /\ (reg + 1) \in bus.fail
    /\ bus.mem[reg] # 0
    /\ out.ret = 0

SpeedMagnitude ==
    FSqrt(FMul(mpu.last_accel.x, mpu.last_accel.x)
          + FMul(mpu.last_accel.y, mpu.last_accel.y)
          + FMul(mpu.last_accel.z - Scale, mpu.last_accel.z - Scale))

\* C12: estimate_speed returns a value in [0, 200]: 0 when the
\* gravity-removed magnitude is below 0.1, min(200, 10 * magnitude)
\* otherwise.
C12_SpeedClamped ==
    op = "estimate_speed"
    => /\ 0 <= out.ret
       /\ out.ret <= 200 * Scale
       /\ pre.sensor_available
          => out.ret = (IF SpeedMagnitude < Scale \div 10 THEN 0
                        ELSE Min(200 * Scale, 10 * SpeedMagnitude))

C12_Witness ==
    /\ op = "estimate_speed"
    /\ pre.sensor_available
    /\ SpeedMagnitude > 0
    /\ out.ret = 0

\* the three filtered angles of an object
FilteredAngles(m) == <<m.filtered_pitch, m.filtered_roll, m.filtered_yaw>>

\* C13: filtered_pitch, filtered_roll and filtered_yaw change only in
\* get_rotation_angles (alone or inside update) on an available sensor;
\* read_word, read_accel_data, read_gyro_data, read_temp_data and
\* estimate_speed leave them unchanged, and estimate_speed leaves prev_gyro
\* and last_gyro unchanged too.
C13_OnlyAnglesWriteFilteredAngles ==
    /\ op \in {"read_word", "read_accel_data", "read_gyro_data",
               "read_temp_data", "estimate_speed"}
       => FilteredAngles(mpu) = FilteredAngles(pre)
    /\ op = "estimate_speed"
       => (mpu.prev_gyro = pre.prev_gyro /\ mpu.last_gyro = pre.last_gyro)
    /\ FilteredAngles(mpu) # FilteredAngles(pre)
       => (op \in {"get_rotation_angles", "update"} /\ pre.sensor_available)

C13_Witness ==
    /\ op = "estimate_speed"
    /\ pre.sensor_available
    /\ pre.filtered_pitch # 0
    /\ pre.filtered_yaw # 0
    /\ pre.prev_gyro # ZeroVec
    /\ mpu.last_accel # pre.last_accel

\* the largest magnitude a gyroscope word converts to, 32768 / 131
GyroFullScale == ToUnits(2 ^ 15, GyroSensitivity)

\* C14: across one read_gyro_data call on an available sensor the value
\* stored in prev_gyro changes by at most 2.0 on every axis, whatever the
\* registers hold and whichever reads fail.
C14_GyroSlewBounded ==
    (op \in OneGyroRead /\ pre.sensor_available)
    => \A a \in Axes : Abs(mpu.prev_gyro[a] - pre.prev_gyro[a]) <= 2 * Scale

C14_Witness ==
    /\ op \in OneGyroRead
    /\ pre.sensor_available
    /\ calls > MaxHold
    /\ \E a \in Axes :
         /\ GyroAfterDeadZone(a) < pre.prev_gyro[a] - 200 * Scale
         /\ mpu.prev_gyro[a] = pre.prev_gyro[a] - 2 * Scale

\* prev_gyro holds the dead-zoned reading on every axis
GyroSettled == \A a \in Axes : mpu.prev_gyro[a] = GyroAfterDeadZone(a)

\* C15: while the sensor holds one reading g on an axis, prev_gyro of that
\* axis reaches g (0 when |g| < 1.5) after finitely many reads and keeps it
\* on every later read: it has done so before the sensor moves, it does so
\* for good on the last reading, and a read never leaves the value once
\* reached.
C15_GyroConverges ==
    /\ [](calls = MaxHold => GyroSettled)
    /\ <>[]GyroSettled
    /\ [][(GyroSettled /\ bus' = bus) => GyroSettled']_vars

C15_Witness ==
    /\ op \in OneGyroRead
    /\ calls > MaxHold
    /\ GyroSettled
    /\ \E a \in Axes :
         /\ GyroAfterDeadZone(a) < -200 * Scale
         /\ pre.prev_gyro[a] # mpu.prev_gyro[a]

\* C16: every axis of prev_accel and last_accel lies in [-2, 2] and every
\* axis of prev_gyro and last_gyro in [-32768/131, 32768/131].
C16_FilteredValuesBounded ==
    \A a \in Axes :
        /\ Abs(mpu.prev_accel[a]) <= 2 * Scale
        /\ Abs(mpu.last_accel[a]) <= 2 * Scale
        /\ Abs(mpu.prev_gyro[a]) <= GyroFullScale
        /\ Abs(mpu.last_gyro[a]) <= GyroFullScale

C16_Witness ==
    /\ op \in OneGyroRead
    /\ mpu.prev_accel.x = -2 * Scale
    /\ mpu.last_accel.x < -19 * (Scale \div 10)
    /\ mpu.prev_gyro.y = -GyroFullScale
    /\ mpu.last_gyro.y < -249 * Scale

=============================================================================
